---------------------------- MODULE Spec2Model ----------------------------
(***************************************************************************)
(* A model of the MD5 command line program (src/MD5/MD5.cpp, src/io.cpp).  *)
(*                                                                         *)
(* Representation of the C++ values:                                       *)
(*   uint8_t      a number in 0..255                                       *)
(*   uint32_t     a pair <<hi, lo>> of 16-bit halves, value hi*2^16 + lo   *)
(*                (TLC's integers are 32-bit signed, so a uint32_t does    *)
(*                not fit one number)                                      *)
(*   uint64_t     a 4-tuple of 16-bit limbs, least significant first       *)
(*   int          a number in -2^31 .. 2^31-1                              *)
(*   std::string  a tuple of one-character strings                         *)
(*   std::vector<uint8_t>                                                  *)
(*                a record [fill, tail]: 64*fill zero bytes followed by    *)
(*                the bytes of the tuple tail.  fill = 0 is a vector       *)
(*                given byte by byte; fill > 0 stands for the leading      *)
(*                part of a file too long to be written out.               *)
(*   size_t       a record [q, r] with 0 <= r < 64, value 64*q + r         *)
(***************************************************************************)
EXTENDS Integers, Sequences, FiniteSets, TLC

(***************************************************************************)
(* Bounds of the model.                                                    *)
(***************************************************************************)
\* the longest argument list explored (argc - 1)
MaxArgs == 2
\* files of every length 0..MaxLen are explored byte by byte
MaxLen == 128

(***************************************************************************)
(* Unsigned arithmetic of the C++ types.                                   *)
(***************************************************************************)
RECURSIVE BitAnd(_, _)
BitAnd(a, b) ==
    IF a = 0 \/ b = 0 THEN 0
    ELSE 2 * BitAnd(a \div 2, b \div 2) + (IF a % 2 = 1 /\ b % 2 = 1 THEN 1 ELSE 0)

RECURSIVE BitOr(_, _)
BitOr(a, b) ==
    IF a = 0 THEN b
    ELSE IF b = 0 THEN a
    ELSE 2 * BitOr(a \div 2, b \div 2) + (IF a % 2 = 1 \/ b % 2 = 1 THEN 1 ELSE 0)

RECURSIVE BitXor(_, _)
BitXor(a, b) ==
    IF a = 0 THEN b
    ELSE IF b = 0 THEN a
    ELSE 2 * BitXor(a \div 2, b \div 2) + (IF a % 2 # b % 2 THEN 1 ELSE 0)

\* the uint32_t with the given 16-bit halves
W(h, l) == <<h, l>>

\* uint8_t (or a small non-negative int) converted to uint32_t
U32(n) == W(n \div 65536, n % 65536)

And32(x, y) == W(BitAnd(x[1], y[1]), BitAnd(x[2], y[2]))
Or32(x, y)  == W(BitOr(x[1], y[1]), BitOr(x[2], y[2]))
Xor32(x, y) == W(BitXor(x[1], y[1]), BitXor(x[2], y[2]))
Not32(x)    == W(65535 - x[1], 65535 - x[2])

\* x + y modulo 2^32
Add32(x, y) ==
    LET s == x[2] + y[2]
    IN  W((x[1] + y[1] + s \div 65536) % 65536, s % 65536)

\* x << n on uint32_t, 0 <= n < 32: the bits shifted out of the word are lost
Shl32(x, n) ==
    IF n < 16
    THEN W(((x[1] * 2 ^ n) % 65536) + x[2] \div 2 ^ (16 - n), (x[2] * 2 ^ n) % 65536)
    ELSE W((x[2] * 2 ^ (n - 16)) % 65536, 0)

\* x >> n on uint32_t, 0 <= n < 32
Shr32(x, n) ==
    IF n < 16
    THEN W(x[1] \div 2 ^ n, x[2] \div 2 ^ n + (x[1] % 2 ^ n) * 2 ^ (16 - n))
    ELSE W(0, x[1] \div 2 ^ (n - 16))

\* (x >> (i * 8)) & 0xff on uint32_t, as a uint8_t
Byte32(x, i) == And32(Shr32(x, i * 8), U32(255))[2]

\* message.size() * 8 as a uint64_t: 512*q + 8*r in 16-bit limbs, least
\* significant first (the product is reduced modulo 2^64 by dropping what
\* would be a fifth limb)
SizeTimes8(sz) ==
    LET low  == (sz.q % 128) * 512 + 8 * sz.r
        rest == sz.q \div 128 + low \div 65536
    IN  << low % 65536, rest % 65536, (rest \div 65536) % 65536, 0 >>

\* (x >> (i * 8)) & 0xff on uint64_t, as a uint8_t
Byte64(x, i) ==
    IF i % 2 = 0 THEN x[(i \div 2) + 1] % 256 ELSE x[(i \div 2) + 1] \div 256

\* (int) n for a size_t n: the low 32 bits, read as two's complement
SizeToInt(sz) ==
    LET m == sz.q % (2 ^ 26)
    IN  IF m < 2 ^ 25 THEN 64 * m + sz.r ELSE 64 * (m - 2 ^ 26) + sz.r

(***************************************************************************)
(* std::vector<uint8_t>.                                                   *)
(***************************************************************************)
\* the vector holding the bytes of the tuple t
Vec(t) == [fill |-> 0, tail |-> t]

\* v.size()
VecSize(v) == [q |-> v.fill + Len(v.tail) \div 64, r |-> Len(v.tail) % 64]

\* v.push_back(b)
push_back(v, b) == [v EXCEPT !.tail = Append(@, b)]

\* whether index k (an int) is an element of v
InRange(v, k) ==
    /\ k >= 0
    /\ \/ k \div 64 < VecSize(v).q
       \/ k \div 64 = VecSize(v).q /\ k % 64 < VecSize(v).r

\* v[k] for an index in range
VecAt(v, k) ==
    IF k \div 64 < v.fill THEN 0
    ELSE v.tail[(k \div 64 - v.fill) * 64 + (k % 64) + 1]

(***************************************************************************)
(* The constant tables.                                                    *)
(***************************************************************************)
K ==
    << W(\hd76a, \ha478), W(\he8c7, \hb756), W(\h2420, \h70db), W(\hc1bd, \hceee),
       W(\hf57c, \h0faf), W(\h4787, \hc62a), W(\ha830, \h4613), W(\hfd46, \h9501),
       W(\h6980, \h98d8), W(\h8b44, \hf7af), W(\hffff, \h5bb1), W(\h895c, \hd7be),
       W(\h6b90, \h1122), W(\hfd98, \h7193), W(\ha679, \h438e), W(\h49b4, \h0821),
       W(\hf61e, \h2562), W(\hc040, \hb340), W(\h265e, \h5a51), W(\he9b6, \hc7aa),
       W(\hd62f, \h105d), W(\h0244, \h1453), W(\hd8a1, \he681), W(\he7d3, \hfbc8),
       W(\h21e1, \hcde6), W(\hc337, \h07d6), W(\hf4d5, \h0d87), W(\h455a, \h14ed),
       W(\ha9e3, \he905), W(\hfcef, \ha3f8), W(\h676f, \h02d9), W(\h8d2a, \h4c8a),
       W(\hfffa, \h3942), W(\h8771, \hf681), W(\h6d9d, \h6122), W(\hfde5, \h380c),
       W(\ha4be, \hea44), W(\h4bde, \hcfa9), W(\hf6bb, \h4b60), W(\hbebf, \hbc70),
       W(\h289b, \h7ec6), W(\heaa1, \h27fa), W(\hd4ef, \h3085), W(\h0488, \h1d05),
       W(\hd9d4, \hd039), W(\he6db, \h99e5), W(\h1fa2, \h7cf8), W(\hc4ac, \h5665),
       W(\hf429, \h2244), W(\h432a, \hff97), W(\hab94, \h23a7), W(\hfc93, \ha039),
       W(\h655b, \h59c3), W(\h8f0c, \hcc92), W(\hffef, \hf47d), W(\h8584, \h5dd1),
       W(\h6fa8, \h7e4f), W(\hfe2c, \he6e0), W(\ha301, \h4314), W(\h4e08, \h11a1),
       W(\hf753, \h7e82), W(\hbd3a, \hf235), W(\h2ad7, \hd2bb), W(\heb86, \hd391) >>

\* the table with a 2 for the first 22
S_typo ==
    << 7, 12, 17,  2, 7, 12, 17, 22, 7, 12, 17, 22, 7, 12, 17, 22,
       5,  9, 14, 20, 5,  9, 14, 20, 5,  9, 14, 20, 5,  9, 14, 20,
       4, 11, 16, 23, 4, 11, 16, 23, 4, 11, 16, 23, 4, 11, 16, 23,
       6, 10, 15, 21, 6, 10, 15, 21, 6, 10, 15, 21, 6, 10, 15, 21 >>

\* the table S; S[i] of the source is S[i + 1] here
S ==
    << 7, 12, 17, 22, 7, 12, 17, 22, 7, 12, 17, 22, 7, 12, 17, 22,
       5,  9, 14, 20, 5,  9, 14, 20, 5,  9, 14, 20, 5,  9, 14, 20,
       4, 11, 16, 23, 4, 11, 16, 23, 4, 11, 16, 23, 4, 11, 16, 23,
       6, 10, 15, 21, 6, 10, 15, 21, 6, 10, 15, 21, 6, 10, 15, 21 >>

(***************************************************************************)
(* md5_rotate and one round of md5_process_chunk.                          *)
(***************************************************************************)
\* a rotation to the right
md5_rotate_right(x, n) == Or32(Shr32(x, n), Shl32(x, 32 - n))

md5_rotate(x, n) == Or32(Shl32(x, n), Shr32(x, 32 - n))

\* The body of the loop of md5_process_chunk for round i (0..63): st is
\* <<A, B, C, D>> before the round, the result is <<A, B, C, D>> after it.
md5_round(chunk, i, st) ==
    LET A == st[1]
        B == st[2]
        C == st[3]
        D == st[4]
        input_word ==
            IF i < 16 THEN chunk[i + 1]
            ELSE IF i < 32 THEN chunk[((5 * i + 1) % 16) + 1]
            ELSE IF i < 48 THEN chunk[((3 * i + 5) % 16) + 1]
            ELSE chunk[((7 * i) % 16) + 1]
        fghi ==
            IF i < 16 THEN Or32(And32(B, C), And32(Not32(B), D))
            ELSE IF i < 32 THEN Or32(And32(D, B), And32(Not32(D), C))
            ELSE IF i < 48 THEN Xor32(Xor32(B, C), D)
            ELSE Xor32(C, Or32(B, Not32(D)))
        temp == D
    IN  << temp,
           Add32(md5_rotate(Add32(Add32(Add32(fghi, A), input_word), K[i + 1]),
                            S[i + 1]), B),
           B,
           C >>

(***************************************************************************)
(* md5_pad_message.                                                        *)
(***************************************************************************)
\* the loop with the condition message.size() % 64 != 0
PadZeros_no8(message) ==
    LET Stops(n) == (VecSize(message).r + n) % 64 = 0
        n == CHOOSE n \in 0..63 : Stops(n) /\ \A m \in 0..(n - 1) : ~Stops(m)
    IN  [message EXCEPT !.tail = @ \o [k \in 1..n |-> 0]]

\* while ((message.size() + 8) % 64 != 0) message.push_back(0);
\* the loop runs n times, n the least number with (size + n + 8) % 64 = 0
PadZeros(message) ==
    LET Stops(n) == (VecSize(message).r + n + 8) % 64 = 0
        n == CHOOSE n \in 0..63 : Stops(n) /\ \A m \in 0..(n - 1) : ~Stops(m)
    IN  [message EXCEPT !.tail = @ \o [k \in 1..n |-> 0]]

\* the length pushed most significant byte first
PushLength_be(message, originalLength) ==
    [message EXCEPT !.tail = @ \o [i \in 1..8 |-> Byte64(originalLength, 8 - i)]]

\* for (int i = 0; i < 8; ++i) message.push_back((originalLength >> (i * 8)) & 0xff);
PushLength(message, originalLength) ==
    [message EXCEPT !.tail = @ \o [i \in 1..8 |-> Byte64(originalLength, i - 1)]]

md5_pad_message(message) ==
    LET originalLength == SizeTimes8(VecSize(message))
    IN  PushLength(PadZeros(push_back(message, 128)), originalLength)

(***************************************************************************)
(* md5_get_chunk.  The result is the set of outcomes the call can have:    *)
(* kind "assert" when the assertion fails, kind "chunk" with the chunk     *)
(* when one is returned, and, when an index message[i + j * 4 + k] is      *)
(* outside the vector (undefined behaviour), either kind "fault" or a      *)
(* chunk built from whatever the read yields.                              *)
(***************************************************************************)
\* the values a read outside the vector is given in the model
Garbage == {0, 255}

\* chunk[j] after the loop over k, a read outside the vector yielding g
ChunkWord(message, i, j, g) ==
    LET b(k) == IF InRange(message, i + j * 4 + k)
                THEN VecAt(message, i + j * 4 + k) ELSE g
    IN  Or32(Or32(Or32(Or32(U32(0), Shl32(U32(b(0)), 0)), Shl32(U32(b(1)), 8)),
                  Shl32(U32(b(2)), 16)), Shl32(U32(b(3)), 24))

md5_get_chunk(message, i) ==
    IF ~(i >= 0 /\ i < SizeToInt(VecSize(message)))
    THEN {[kind |-> "assert", chunk |-> <<>>]}
    ELSE IF \A n \in 0..63 : InRange(message, i + n)
    THEN {[kind |-> "chunk", chunk |-> [j \in 1..16 |-> ChunkWord(message, i, j - 1, 0)]]}
    ELSE {[kind |-> "fault", chunk |-> <<>>]} \cup
         {[kind |-> "chunk", chunk |-> [j \in 1..16 |-> ChunkWord(message, i, j - 1, g)]]
            : g \in Garbage}

(***************************************************************************)
(* std::string and the functions of io.cpp.                                *)
(***************************************************************************)
\* std::string::npos
npos == -1

\* s.find(t): the position (from 0) of the first occurrence of t in s
Find(s, t) ==
    LET hits == {p \in 0..(Len(s) - Len(t)) : SubSeq(s, p + 1, p + Len(t)) = t}
    IN  IF hits = {} THEN npos ELSE CHOOSE p \in hits : \A o \in hits : p <= o

\* s.substr(pos, n) and s.substr(pos)
Substr(s, pos, n) == SubSeq(s, pos + 1, IF pos + n < Len(s) THEN pos + n ELSE Len(s))
SubstrFrom(s, pos) == SubSeq(s, pos + 1, Len(s))

usage == "\nUsage:\nMD5 --message=\"...\" [--outputFile=\"...\"]\nOR\nMD5 --messageFile=\"...\" [--outputFile=\"...\"]\n"

\* The loop of parse_args from argument i on (argv[0], the program name, is
\* not part of argv here: argv[i] of the source is argv[i] here, i >= 1).
\* The result is [exit, stderr, args]: exit tells that exit(1) was called.
RECURSIVE parse_loop(_, _, _, _)
parse_loop(argv, accepted_args, i, args) ==
    IF i > Len(argv) THEN [exit |-> FALSE, stderr |-> <<>>, args |-> args]
    ELSE
      LET arg        == argv[i]
          equals_pos == Find(arg, <<"=">>)
          name       == Substr(arg, 2, equals_pos - 2)
      IN  IF equals_pos = npos \/ Find(arg, <<"-", "-">>) # 0
          THEN [exit |-> TRUE, stderr |-> <<"Error: Invalid argument: ", usage>>,
                args |-> args]
          ELSE IF \A k \in 1..Len(accepted_args) : accepted_args[k] # name
          THEN [exit |-> TRUE, stderr |-> <<"Error: Invalid argument: ", usage>>,
                args |-> args]
          ELSE IF name \in DOMAIN args
          THEN [exit |-> TRUE, stderr |-> <<"Error: Duplicate argument: ", usage>>,
                args |-> args]
          ELSE parse_loop(argv, accepted_args, i + 1,
                          [n \in DOMAIN args \cup {name} |->
                              IF n = name THEN SubstrFrom(arg, equals_pos + 1)
                              ELSE args[n]])

\* the loop started at i = 2
parse_args_from2(argv, accepted_args) == parse_loop(argv, accepted_args, 2, <<>>)

parse_args(argv, accepted_args) == parse_loop(argv, accepted_args, 1, <<>>)

HexDigits ==
    <<"0", "1", "2", "3", "4", "5", "6", "7", "8", "9", "a", "b", "c", "d", "e", "f">>

\* an int written by std::hex: its hexadecimal digits, no leading zero
RECURSIVE HexOf(_)
HexOf(n) ==
    IF n < 16 THEN HexDigits[n + 1] ELSE HexOf(n \div 16) \o HexDigits[(n % 16) + 1]

\* std::setw(2) with std::setfill('0'): padded on the left to two characters
SetW2(str) == IF Len(str) < 2 THEN "0" \o str ELSE str

RECURSIVE to_hex_string(_)
to_hex_string(bytes) ==
    IF bytes = <<>> THEN ""
    ELSE SetW2(HexOf(Head(bytes))) \o to_hex_string(Tail(bytes))

(***************************************************************************)
(* The inputs explored: argument lists, and the files of the environment.  *)
(***************************************************************************)
s_message     == <<"m", "e", "s", "s", "a", "g", "e">>
s_messageFile == <<"m", "e", "s", "s", "a", "g", "e", "F", "i", "l", "e">>
s_outputFile  == <<"o", "u", "t", "p", "u", "t", "F", "i", "l", "e">>
s_abc         == <<"a", "b", "c">>
s_fox ==
    <<"T", "h", "e", " ", "q", "u", "i", "c", "k", " ", "b", "r", "o", "w", "n", " ",
      "f", "o", "x", " ", "j", "u", "m", "p", "s", " ", "o", "v", "e", "r", " ",
      "t", "h", "e", " ", "l", "a", "z", "y", " ", "d", "o", "g">>

\* the argument --name=value
Flag(name, value) == <<"-", "-">> \o name \o <<"=">> \o value

ArgPool ==
    { Flag(s_message, s_abc), Flag(s_message, <<>>), Flag(s_message, s_fox),
      Flag(s_messageFile, <<"i", "n">>), Flag(s_outputFile, <<"o", "u", "t">>),
      Flag(<<"b", "o", "g", "u", "s">>, <<"1">>),
      <<"-", "-">> \o s_message,
      s_message \o <<"=">> \o s_abc }

ArgLists == UNION {[1..n -> ArgPool] : n \in 0..MaxArgs}

\* the character codes of the characters the argument values are made of
Letters ==
    <<"a", "b", "c", "d", "e", "f", "g", "h", "i", "j", "k", "l", "m",
      "n", "o", "p", "q", "r", "s", "t", "u", "v", "w", "x", "y", "z">>
Ord(c) ==
    IF c = " " THEN 32
    ELSE IF c = "T" THEN 84
    ELSE 96 + (CHOOSE n \in 1..26 : Letters[n] = c)

\* a file of n bytes, and a file of 64 * blocks zero bytes followed by
\* n zero bytes
FileOfLength(n) == Vec([k \in 1..n |-> (37 * k + 11 * n) % 256])
ZeroFile(blocks, n) == [fill |-> blocks, tail |-> [k \in 1..n |-> 0]]

\* The contents a file read by the program can have: every length up to
\* MaxLen, and files of 2^31 - 72, 2^31 - 64, 2^32 - 64 and 2^32 zero bytes,
\* whose padded size is 2^31, 2^31, 2^32 and 2^32 + 64 bytes.
Files ==
    {FileOfLength(n) : n \in 0..MaxLen}
    \cup { ZeroFile(2 ^ 25 - 2, 56), ZeroFile(2 ^ 25 - 1, 0),
           ZeroFile(2 ^ 26 - 1, 0), ZeroFile(2 ^ 26, 0) }

\* read_file_bytes.  The outcomes of the call: [opened, threw, bytes], where
\* opened tells whether the environment let the file be opened.  When it
\* did not, the function throws; otherwise the bytes of the file are returned.
read_file_bytes(file_path) ==
    {[opened |-> FALSE, threw |-> TRUE, bytes |-> Vec(<<>>)]} \cup
    {[opened |-> TRUE, threw |-> FALSE, bytes |-> f] : f \in Files}

\* the same without "if (!file) throw"
write_file_no_check(filename, contents) ==
    {[opened |-> FALSE, threw |-> FALSE, file |-> <<>>],
     [opened |-> TRUE, threw |-> FALSE, file |-> <<filename, contents>>]}

\* write_file.  The outcomes of the call: [opened, threw, file], file being
\* the file written, <<name, contents>>, or <<>> when none was.
write_file(filename, contents) ==
    {[opened |-> FALSE, threw |-> TRUE, file |-> <<>>],
     [opened |-> TRUE, threw |-> FALSE, file |-> <<filename, contents>>]}

(***************************************************************************)
(* The program.                                                            *)
(***************************************************************************)
VARIABLES
    pc,            \* where the program is
    argv,          \* the command line arguments, argv[1..argc-1]
    out_file,      \* the global out_file
    input,         \* the vector md5_get_message returned
    message,       \* main's vector message
    A, B, C, D,    \* main's state words
    i,             \* the counter of main's loop over the chunks
    offsets,       \* history: the offsets md5_get_chunk was called with
    chunk,         \* the chunk being processed
    regs,          \* md5_process_chunk's A, B, C, D
    round,         \* md5_process_chunk's loop counter
    result_bytes,  \* main's result_bytes
    stdout,        \* what was written to std::cout
    stderr,        \* what was written to std::cerr
    written,       \* the output file written: <<name, contents>>, or <<>>
    open_failed,   \* history: the file the environment refused to open:
                   \* "none", "read" (the message file), "write" (the output file)
    status         \* how the process ended: "running", "return 0" (main
                   \* returned), "exit(1)", "terminate" (std::terminate after
                   \* an exception nobody caught: abort, status 134), "assert"
                   \* (a failed assert: abort), "fault" (a memory fault)

vars == << pc, argv, out_file, input, message, A, B, C, D, i, offsets, chunk,
           regs, round, result_bytes, stdout, stderr, written, open_failed,
           status >>

Init ==
    /\ pc = "md5_get_message"
    /\ argv \in ArgLists
    /\ out_file = <<>>
    /\ input = Vec(<<>>)
    /\ message = Vec(<<>>)
    /\ A = U32(0) /\ B = U32(0) /\ C = U32(0) /\ D = U32(0)
    /\ i = 0
    /\ offsets = <<>>
    /\ chunk = <<>>
    /\ regs = <<>>
    /\ round = 0
    /\ result_bytes = <<>>
    /\ stdout = <<>>
    /\ stderr = <<>>
    /\ written = <<>>
    /\ open_failed = "none"
    /\ status = "running"

accepted_args == <<s_message, s_messageFile, s_outputFile>>

\* std::vector<uint8_t>(str.begin(), str.end())
BytesOf(str) == Vec([k \in 1..Len(str) |-> Ord(str[k])])

\* md5_get_message.  The result is the set of outcomes of the call:
\* [kind, opened, out_file, stderr, message] with kind "exit" for exit(1),
\* "throw" for the exception of read_file_bytes and "return" for a returned
\* vector; opened tells whether every file the call tried to open was opened.
md5_get_message(args_in) ==
    LET parsed == parse_args(args_in, accepted_args)
        args   == parsed.args
        out    == IF s_outputFile \in DOMAIN args THEN args[s_outputFile] ELSE <<>>
        Exit(err) == {[kind |-> "exit", opened |-> TRUE, out_file |-> out,
                       stderr |-> err, message |-> Vec(<<>>)]}
    IN  IF parsed.exit
        THEN {[kind |-> "exit", opened |-> TRUE, out_file |-> <<>>,
               stderr |-> parsed.stderr, message |-> Vec(<<>>)]}
        ELSE IF s_message \notin DOMAIN args
        THEN IF s_messageFile \notin DOMAIN args
             THEN Exit(<<"Error: No message provided.", usage>>)
             ELSE {[kind |-> IF f.threw THEN "throw" ELSE "return", opened |-> f.opened,
                    out_file |-> out,
                    stderr |-> IF f.threw THEN <<"Unable to open file: ">> ELSE <<>>,
                    message |-> f.bytes] : f \in read_file_bytes(args[s_messageFile])}
        ELSE IF s_messageFile \in DOMAIN args
        THEN Exit(<<"Error: Both message and messageFile provided.", usage>>)
        ELSE {[kind |-> "return", opened |-> TRUE, out_file |-> out, stderr |-> <<>>,
               message |-> BytesOf(args[s_message])]}

\* main, line 159: the call of md5_get_message.  An exception nobody catches
\* ends the process through std::terminate, which reports what() and aborts.
GetMessage ==
    /\ pc = "md5_get_message"
    /\ \E o \in md5_get_message(argv) :
          /\ out_file' = o.out_file
          /\ stderr' = o.stderr
          /\ message' = o.message
          /\ input' = o.message
          /\ pc' = IF o.kind = "return" THEN "md5_pad_message" ELSE "halt"
          /\ status' = CASE o.kind = "return" -> "running"
                          [] o.kind = "exit"   -> "exit(1)"
                          [] o.kind = "throw"  -> "terminate"
          /\ open_failed' = IF o.opened THEN "none" ELSE "read"
    /\ UNCHANGED << argv, A, B, C, D, i, offsets, chunk, regs, round,
                    result_bytes, stdout, written >>

\* main, lines 160-166 and the initialisation of the loop at line 169
Pad ==
    /\ pc = "md5_pad_message"
    /\ message' = md5_pad_message(message)
    /\ A' = W(\h6745, \h2301)
    /\ B' = W(\hefcd, \hab89)
    /\ C' = W(\h98ba, \hdcfe)
    /\ D' = W(\h1032, \h5476)
    /\ i' = 0
    /\ pc' = "loop"
    /\ UNCHANGED << argv, out_file, input, offsets, chunk, regs, round,
                    result_bytes, stdout, stderr, written, open_failed, status >>

\* the condition with <= for <
LoopCond_le == i <= SizeToInt(VecSize(message))

\* the condition of main's loop, line 169
LoopCond == i < SizeToInt(VecSize(message))

\* main, lines 169-171: the loop goes on, md5_get_chunk is called and
\* md5_process_chunk is entered with main's A, B, C, D
GetChunk ==
    /\ pc = "loop"
    /\ LoopCond
    /\ \E o \in md5_get_chunk(message, i) :
          /\ chunk' = o.chunk
          /\ pc' = IF o.kind = "chunk" THEN "md5_process_chunk" ELSE "halt"
          /\ status' = CASE o.kind = "chunk"  -> "running"
                          [] o.kind = "assert" -> "assert"
                          [] o.kind = "fault"  -> "fault"
    /\ offsets' = Append(offsets, i)
    /\ regs' = <<A, B, C, D>>
    /\ round' = 0
    /\ UNCHANGED << argv, out_file, input, message, A, B, C, D, i,
                    result_bytes, stdout, stderr, written, open_failed >>

\* md5_process_chunk, lines 133-153: one round
Round ==
    /\ pc = "md5_process_chunk"
    /\ round < 64
    /\ regs' = md5_round(chunk, round, regs)
    /\ round' = round + 1
    /\ UNCHANGED << pc, argv, out_file, input, message, A, B, C, D, i, offsets,
                    chunk, result_bytes, stdout, stderr, written, open_failed, status >>

\* md5_process_chunk returns (line 154); main, lines 172-175, and i += 64
Accumulate ==
    /\ pc = "md5_process_chunk"
    /\ round = 64
    /\ A' = Add32(A, regs[1])
    /\ B' = Add32(B, regs[2])
    /\ C' = Add32(C, regs[3])
    /\ D' = Add32(D, regs[4])
    /\ i' = i + 64
    /\ pc' = "loop"
    /\ UNCHANGED << argv, out_file, input, message, offsets, chunk, regs, round,
                    result_bytes, stdout, stderr, written, open_failed, status >>

\* main, lines 179-185: the four words as bytes, least significant first
Serialize(a, b, c, d) ==
    [n \in 1..16 |-> Byte32(<<a, b, c, d>>[((n - 1) \div 4) + 1], (n - 1) % 4)]

\* main: the loop ends, lines 179-185
LoopExit ==
    /\ pc = "loop"
    /\ ~LoopCond
    /\ result_bytes' = Serialize(A, B, C, D)
    /\ pc' = "output"
    /\ UNCHANGED << argv, out_file, input, message, A, B, C, D, i, offsets,
                    chunk, regs, round, stdout, stderr, written, open_failed, status >>

\* main, line 188
PrintHash ==
    /\ pc = "output"
    /\ out_file = <<>>
    /\ stdout' = <<"hash: " \o to_hex_string(result_bytes)>>
    /\ pc' = "halt"
    /\ status' = "return 0"
    /\ UNCHANGED << argv, out_file, input, message, A, B, C, D, i, offsets,
                    chunk, regs, round, result_bytes, stderr, written, open_failed >>

\* main, lines 190-192: write_file writes the hash, or throws and the
\* process ends through std::terminate
WriteHash ==
    /\ pc = "output"
    /\ out_file # <<>>
    /\ \E o \in write_file(out_file, to_hex_string(result_bytes)) :
          /\ written' = o.file
          /\ stdout' = IF o.threw THEN <<"Writing hash to ", "...">>
                                  ELSE <<"Writing hash to ", "...", " Done.">>
          /\ stderr' = IF o.threw THEN <<"Unable to open file: ">> ELSE stderr
          /\ status' = IF o.threw THEN "terminate" ELSE "return 0"
          /\ open_failed' = IF o.opened THEN "none" ELSE "write"
    /\ pc' = "halt"
    /\ UNCHANGED << argv, out_file, input, message, A, B, C, D, i, offsets,
                    chunk, regs, round, result_bytes >>

Next ==
    \/ GetMessage
    \/ Pad
    \/ GetChunk
    \/ Round
    \/ Accumulate
    \/ LoopExit
    \/ PrintHash
    \/ WriteHash

Spec == Init /\ [][Next]_vars

(***************************************************************************)
(* md5_get_chunk on its own: a call with any padded message and any        *)
(* offset.                                                                 *)
(***************************************************************************)
InitChunk ==
    /\ pc = "call md5_get_chunk"
    /\ message \in {md5_pad_message(FileOfLength(n)) : n \in {0, 56}}
    /\ i \in -2..130
    /\ argv = <<>>
    /\ out_file = <<>>
    /\ input = Vec(<<>>)
    /\ A = U32(0) /\ B = U32(0) /\ C = U32(0) /\ D = U32(0)
    /\ offsets = <<>>
    /\ chunk = <<>>
    /\ regs = <<>>
    /\ round = 0
    /\ result_bytes = <<>>
    /\ stdout = <<>>
    /\ stderr = <<>>
    /\ written = <<>>
    /\ open_failed = "none"
    /\ status = "running"

\* the call md5_get_chunk(message, i): pc becomes the kind of its outcome
CallGetChunk ==
    /\ pc = "call md5_get_chunk"
    /\ \E o \in md5_get_chunk(message, i) :
          /\ chunk' = o.chunk
          /\ pc' = o.kind
    /\ UNCHANGED << argv, out_file, input, message, A, B, C, D, i, offsets, regs,
                    round, result_bytes, stdout, stderr, written, open_failed,
                    status >>

NextChunk == CallGetChunk

SpecChunk == InitChunk /\ [][NextChunk]_vars

(***************************************************************************)
(* Properties.                                                             *)
(***************************************************************************)
\* md5_pad_message has run
Padded == pc \in {"loop", "md5_process_chunk", "output"} \/ result_bytes # <<>>

\* main has emitted the digest given as a hex string
Emitted(hex) ==
    /\ pc = "halt"
    /\ status = "return 0"
    /\ IF out_file = <<>> THEN stdout = <<"hash: " \o hex>>
                          ELSE written = <<out_file, hex>>

\* C1: for the empty message, "abc" and "The quick brown fox jumps over the
\* lazy dog" a run that ends normally has emitted the well-known MD5 digest.
C1_KnownDigests ==
    pc = "halt" /\ status = "return 0" =>
        /\ input = BytesOf(<<>>) => Emitted("d41d8cd98f00b204e9800998ecf8427e")
        /\ input = BytesOf(s_abc) => Emitted("900150983cd24fb0d6963f7d28e17f72")
        /\ input = BytesOf(s_fox) => Emitted("9e107d9d372bb6826bd81d3542a419d6")

C1_Witness ==
    /\ input = BytesOf(s_fox)
    /\ Emitted("9e107d9d372bb6826bd81d3542a419d6")
    /\ out_file = <<>>

\* C2: after md5_pad_message the size of the message is a multiple of 64, at
\* least 64 and at least the size of the input plus 9.
C2_PaddedSize ==
    Padded =>
        /\ VecSize(message).r = 0
        /\ VecSize(message).q >= 1
        /\ VecSize(message).q >= VecSize(input).q + (VecSize(input).r + 9 + 63) \div 64

C2_Witness == Padded /\ input = Vec(<<>>) /\ VecSize(message) = [q |-> 1, r |-> 0]

\* C3: every offset md5_get_chunk is called with in main's loop is a
\* multiple of 64 with offset + 64 <= size of the padded message, all 64
\* bytes read are inside the message, and the call neither fails its
\* assertion nor reads outside the vector.
C3_ChunkInBounds ==
    /\ status \notin {"assert", "fault"}
    /\ \A n \in 1..Len(offsets) :
          /\ offsets[n] % 64 = 0
          /\ offsets[n] >= 0
          /\ offsets[n] \div 64 + 1 <= VecSize(message).q
          /\ \A b \in 0..63 : InRange(message, offsets[n] + b)

C3_Witness == pc = "md5_process_chunk" /\ Len(offsets) = 3 /\ offsets[3] = 128

\* C4: when main's loop has ended, exactly size(padded) / 64 chunks have
\* been processed and a digest of 16 bytes is emitted.
C4_AllChunksProcessed ==
    result_bytes # <<>> =>
        /\ Len(offsets) = VecSize(message).q
        /\ Len(result_bytes) = 16
        /\ status \in {"running", "return 0", "terminate"}

\* An argument list as the command surface describes it: an argument is
\* well formed when it is --name=value with an accepted name.
HasEq(arg) == \E k \in 1..Len(arg) : arg[k] = "="
Dashed(arg) == Len(arg) >= 2 /\ arg[1] = "-" /\ arg[2] = "-"
FlagName(arg) ==
    LET e == CHOOSE k \in 1..Len(arg) : arg[k] = "=" /\ \A m \in 1..(k - 1) : arg[m] # "="
    IN  SubSeq(arg, 3, e - 1)
WellFormed(arg) ==
    Dashed(arg) /\ HasEq(arg) /\ FlagName(arg) \in {s_message, s_messageFile, s_outputFile}
Given(list, name) == \E k \in 1..Len(list) : FlagName(list[k]) = name
ValidArgs(list) ==
    /\ \A k \in 1..Len(list) : WellFormed(list[k])
    /\ \A j, k \in 1..Len(list) : j # k => FlagName(list[j]) # FlagName(list[k])
    /\ Given(list, s_message) # Given(list, s_messageFile)

\* the program ended by exit(1) after an error and the usage text, before
\* padding and hashing and without a digest
UsageError ==
    /\ pc = "halt"
    /\ status = "exit(1)"
    /\ Len(stderr) = 2
    /\ stderr[1] \in {"Error: Invalid argument: ", "Error: Duplicate argument: ",
                      "Error: No message provided.",
                      "Error: Both message and messageFile provided."}
    /\ stderr[2] = usage
    /\ ~Padded
    /\ message = Vec(<<>>)
    /\ offsets = <<>>
    /\ stdout = <<>>
    /\ written = <<>>

ReachedCore == pc = "md5_pad_message" \/ Padded

\* C5 as claimed: a list with an unknown flag, an argument without '=', a
\* repeated flag, or both or neither of --message and --messageFile ends in
\* a usage error; every other list reaches the core.
C5_Original ==
    pc # "md5_get_message" =>
        /\ ~ValidArgs(argv) => UsageError
        /\ ValidArgs(argv) => ReachedCore

\* C5 as amended: ... every other list reaches the core, unless the file
\* named by --messageFile cannot be opened: then the process ends through
\* std::terminate before the core, without a digest.
C5_Amended ==
    pc # "md5_get_message" =>
        /\ ~ValidArgs(argv) => UsageError
        /\ ValidArgs(argv) =>
              \/ ReachedCore
              \/ /\ Given(argv, s_messageFile)
                 /\ open_failed = "read"
                 /\ pc = "halt" /\ status = "terminate"
                 /\ ~Padded /\ stdout = <<>> /\ written = <<>>

C5_Witness ==
    /\ UsageError
    /\ stderr[1] = "Error: Duplicate argument: "
    /\ Len(argv) = 2

C7_PreconditionEnforced ==
    pc = "chunk" =>
        /\ i >= 0
        /\ i % 64 = 0
        /\ i \div 64 + 1 <= VecSize(message).q

\* C8: the padded message is the input, one byte 0x80, the least number z
\* of zero bytes with (size(input) + 1 + z + 8) % 64 = 0, and 8 * size(input)
\* as 8 bytes, least significant first; inputs of 55, 56, 63, 64 and 65
\* bytes are padded to 64, 128, 128, 128 and 128 bytes.
C8_PaddingLayout ==
    Padded =>
        LET t  == message.tail
            n  == Len(input.tail)
            z  == Len(t) - n - 9
            b(k) == t[n + 1 + z + k]
        IN  /\ message.fill = input.fill
            /\ z \in 0..63
            /\ (n + 1 + z + 8) % 64 = 0
            /\ SubSeq(t, 1, n) = input.tail
            /\ t[n + 1] = 128
            /\ \A k \in (n + 2)..(n + 1 + z) : t[k] = 0
            \* the 8 bytes are 512 * q + 8 * r for the input size 64 * q + r
            /\ b(1) + 256 * (b(2) % 2) = 8 * VecSize(input).r
            /\ b(2) \div 2 + 128 * b(3) + 32768 * b(4) + 8388608 * b(5) = VecSize(input).q
            /\ b(6) = 0 /\ b(7) = 0 /\ b(8) = 0
            /\ input.fill = 0 =>
                  /\ n = 55 => Len(t) = 64
                  /\ n \in {56, 63, 64, 65} => Len(t) = 128

C8_Witness == Padded /\ input.fill = 0 /\ Len(input.tail) = 56 /\ Len(message.tail) = 128

\* C9 as claimed, for every step of the program: the offsets processed are
\* 0, 64, 128, ... in this order; the state is the four constants before the
\* first chunk; md5_process_chunk starts from main's state; main's state
\* changes only by adding the words md5_process_chunk returned; and when
\* the state is read out, every chunk of the padded message was processed.
C9_Step ==
    /\ \A n \in 1..Len(offsets') : offsets'[n] = 64 * (n - 1)
    /\ pc' = "loop" /\ offsets' = <<>> =>
          <<A', B', C', D'>> =
              <<W(\h6745, \h2301), W(\hefcd, \hab89), W(\h98ba, \hdcfe), W(\h1032, \h5476)>>
    /\ pc' = "md5_process_chunk" /\ round' = 0 => regs' = <<A', B', C', D'>>
    /\ <<A', B', C', D'>> # <<A, B, C, D>> =>
          \/ pc = "md5_pad_message"
          \/ /\ pc = "md5_process_chunk" /\ round = 64
             /\ <<A', B', C', D'>> = <<Add32(A, regs[1]), Add32(B, regs[2]),
                                       Add32(C, regs[3]), Add32(D, regs[4])>>
    /\ result_bytes' # <<>> =>
          /\ Len(offsets') = VecSize(message').q
          /\ result_bytes' = Serialize(A', B', C', D')

C9_Claim == [][C9_Step]_vars

\* C10 as claimed: S has 64 entries and the rotation of every round is in
\* 7..23.
C10_Original ==
    /\ Len(S) = 64
    /\ pc = "md5_process_chunk" /\ round < 64 => S[round + 1] \in 7..23

\* C10 as amended: S has 64 entries and the rotation of every round is in
\* 4..23 (so within 1..31).
C10_Amended ==
    /\ Len(S) = 64
    /\ pc = "md5_process_chunk" /\ round < 64 => S[round + 1] \in 4..23

C10_Witness == pc = "md5_process_chunk" /\ round = 32 /\ S[round + 1] = 4

=============================================================================
